---- MODULE Spec2Model ----
(***************************************************************************)
(* Verification model of the alpaca client modules:                        *)
(*   market.py  - contract chain download (cursor pagination) and the      *)
(*                trade/quote reconciliation of the security downloaders   *)
(*   orders.py  - order construction, payload and acknowledgement          *)
(*   portfolio.py - decoding of the position objects of the portfolio page *)
(* Four specifications share the module, one per subsystem:                *)
(*   SpecChain, SpecMarket, SpecOrder, SpecPortfolio.                      *)
(*                                                                         *)
(* The webscraping, finance and support packages and pandas are outside    *)
(* the repository.  A page is taken to work the way the downloaders use    *)
(* it: calling the page class runs its execute and gives the result,       *)
(* self.load hands the url (and payload) to the transport and either       *)
(* returns with self.json set or raises.  Python's own rules (keyword      *)
(* binding, name lookup, dict and list operations) are modelled as they    *)
(* are.                                                                    *)
(***************************************************************************)
EXTENDS Integers, Sequences, FiniteSets, TLC

VARIABLES
    \* ---- AlpacaContractDownloader / AlpacaContractPage ----
    cpc,        \* position of the contract downloader
    symbols,    \* symbols the generator has still to download
    expiry,     \* expiry window handed to execute (<<>> is None)
    frame,      \* bound keyword arguments of the running AlpacaContractPage.execute
    stack,      \* `contents` of the suspended (outer) execute frames
    requests,   \* urls loaded during the running chain fetch, in order
    responses,  \* pages received during the running chain fetch, in order
    inflight,   \* number of loads issued and not yet answered
    contracts,  \* value returned by the last download()
    yielded,    \* lists the generator has yielded so far
    cerror,     \* exception that left the generator, None when there is none
    failed,     \* number of loads the transport answered by raising
    \* ---- AlpacaStockDownloader / AlpacaOptionDownloader download() ----
    mpc,        \* position of download()
    trade,      \* dataframe of the trade page
    quote,      \* dataframe of the quote page
    dataframe,  \* dataframe returned by download()
    merror,     \* exception that left download(), None when there is none
    \* ---- AlpacaOrderUploader / AlpacaOrderPage ----
    opc,        \* position of the uploader / of the page
    prospects,  \* prospect rows the generator orders() has still to turn into orders
    term,       \* term handed to execute, None before the call
    tenure,     \* tenure handed to execute, None before the call
    order,      \* order handed to AlpacaOrderPage.execute, NoOrder before the first
    built,      \* orders the generator orders() has constructed, in order
    sent,       \* payloads the transport has received, in order
    json,       \* self.json of the order page: <<>> before the first answer, then <<ack>>
    decoded,    \* orders decoded from acknowledgements, in order
    oerror,     \* exception that left the uploader / the page, None when there is none
    \* ---- AlpacaPortfolioPage / AlpacaPortfolioData ----
    ppc,        \* position of the portfolio page
    positions,  \* self.json of the portfolio page: the position objects of the answer
    portfolio,  \* rows of the dataframe the page returns
    perror      \* exception that left the page, None when there is none

chainvars == <<cpc, symbols, expiry, frame, stack, requests, responses, inflight, contracts, yielded, cerror, failed>>

marketvars == <<mpc, trade, quote, dataframe, merror>>

ordervars == <<opc, prospects, term, tenure, order, built, sent, json, decoded, oerror>>

portfoliovars == <<ppc, positions, portfolio, perror>>
vars == <<chainvars, marketvars, ordervars, portfoliovars>>

None == "None"

\* Python truth value of an optional string, and of an optional tuple (<<>> is None)
Bool(x) == x # None /\ x # ""
BoolTuple(x) == x # <<>>

----------------------------------------------------------------------------
(* Bounds and input domains of the contract chain                          *)

MaxSymbols == 2
MaxItems == 2
MaxPages == 3

AllTickers == <<"SPY", "QQQ", "IWM">>
Tokens == {"A", "B"}
WebApi == [identity |-> "key", code |-> "secret"]
Expires == {1, 2}
ExpiryInputs == {<<>>, <<1, 2>>}
SymbolInputs == {[i \in 1..n |-> [ticker |-> AllTickers[i]]] : n \in 0..MaxSymbols}

\* the contracts a server may list for a ticker: two expirations, two strikes and
\* both option types occur
Contracts(ticker) ==
    {[ticker |-> ticker, expire |-> 1, option |-> "call", strike |-> 100],
     [ticker |-> ticker, expire |-> 1, option |-> "put", strike |-> 100],
     [ticker |-> ticker, expire |-> 1, option |-> "call", strike |-> 105],
     [ticker |-> ticker, expire |-> 2, option |-> "call", strike |-> 100]}

\* sequences without repetition of at most n elements of S
RECURSIVE Listings(_, _)
Listings(S, n) ==
    IF n = 0 THEN {<<>>}
    ELSE LET shorter == Listings(S, n - 1)
         IN shorter \cup {Append(list, x) : list \in {l \in shorter : Len(l) = n - 1}, x \in S}

DistinctListings(S, n) == {list \in Listings(S, n) : \A i, j \in 1..Len(list) : i # j => list[i] # list[j]}

----------------------------------------------------------------------------
(* AlpacaContractURL                                                       *)

tickers(ticker) == [underlying_symbols |-> ticker]
expires(exp) == IF BoolTuple(exp) THEN [expiration_date_gte |-> exp[1], expiration_date_lte |-> exp[2]] ELSE <<>>
pagination(token) == IF Bool(token) THEN [page_token |-> token] ELSE <<>>

Merge(f, g) == [k \in DOMAIN f \cup DOMAIN g |-> IF k \in DOMAIN g THEN g[k] ELSE f[k]]

AlpacaContractURL(ticker, exp, webapi, token) ==
    [parameters |-> Merge(Merge(tickers(ticker), expires(exp)), pagination(token)),
     headers |-> webapi]

----------------------------------------------------------------------------
(* AlpacaContractPage.execute                                              *)

\* keyword arguments of the first call, made by AlpacaContractDownloader.download
DownloadKwargs(symbol, exp, webapi) == [symbol |-> symbol, expiry |-> exp, webapi |-> webapi]

\* keyword arguments of the recursive call on line 151
RecursiveKwargs(symbol, exp, webapi, token) ==
    [ticker |-> symbol.ticker, expiry |-> exp, webapi |-> webapi, pagination |-> token]

\* the signature of execute: symbol, expiry and webapi are required keyword-only
\* parameters, pagination defaults to None
Binds(kw) == {"symbol", "expiry", "webapi"} \subseteq DOMAIN kw

Bound(kw) ==
    [symbol |-> kw.symbol, expiry |-> kw.expiry, webapi |-> kw.webapi,
     pagination |-> IF "pagination" \in DOMAIN kw THEN kw.pagination ELSE None]

RECURSIVE Concat(_)
Concat(lists) == IF lists = <<>> THEN <<>> ELSE Head(lists) \o Concat(Tail(lists))

\* list.sort(key=lambda contract: contract.expire): a stable insertion by key
RECURSIVE SortByExpire(_)
Insert(sorted, x) ==
    LET before == SelectSeq(sorted, LAMBDA y : y.expire <= x.expire)
        after == SelectSeq(sorted, LAMBDA y : y.expire > x.expire)
    IN before \o <<x>> \o after
SortOmitted(list) == list
SortByExpire(list) ==
    IF list = <<>> THEN <<>>
    ELSE Insert(SortByExpire(SubSeq(list, 1, Len(list) - 1)), list[Len(list)])

NoFrame == [symbol |-> [ticker |-> None], expiry |-> <<>>, webapi |-> WebApi, pagination |-> None]

InitChain ==
    /\ cpc = "idle"
    /\ symbols = <<>>
    /\ expiry = <<>>
    /\ frame = NoFrame
    /\ stack = <<>>
    /\ requests = <<>>
    /\ responses = <<>>
    /\ inflight = 0
    /\ contracts = <<>>
    /\ yielded = <<>>
    /\ cerror = None
    /\ failed = 0

\* AlpacaContractDownloader.execute up to the first download: the caller supplies
\* the symbols and the expiry window; an empty list of symbols returns at once
ContractExecute ==
    /\ cpc = "idle"
    /\ \E syms \in SymbolInputs, exp \in ExpiryInputs :
        /\ symbols' = syms
        /\ expiry' = exp
        /\ cpc' = IF syms = <<>> THEN "finished" ELSE "loop"
    /\ UNCHANGED <<frame, stack, requests, responses, inflight, contracts, yielded, cerror, failed>>
    /\ UNCHANGED <<marketvars, ordervars, portfoliovars>>

\* a call of AlpacaContractPage.execute with keyword arguments kw, made while the
\* frames in outer are suspended, having already loaded the urls in loaded: the
\* arguments are bound (TypeError when a required one is absent), the url is
\* built and the load is issued
Call(kw, outer, loaded) ==
    IF Binds(kw)
    THEN LET args == Bound(kw)
         IN /\ frame' = args
            /\ stack' = outer
            /\ requests' = Append(loaded, AlpacaContractURL(args.symbol.ticker, args.expiry, args.webapi, args.pagination))
            /\ inflight' = inflight + 1
            /\ cpc' = "loading"
            /\ cerror' = cerror
    ELSE /\ cpc' = "raised"
         /\ cerror' = "TypeError"
         /\ stack' = <<>>
         /\ requests' = loaded
         /\ UNCHANGED <<frame, inflight>>

\* the loop of AlpacaContractDownloader.execute takes the next symbol and
\* download() calls the page
ContractDownload ==
    /\ cpc = "loop"
    /\ symbols # <<>>
    /\ Call(DownloadKwargs(Head(symbols), expiry, WebApi), <<>>, <<>>)
    /\ responses' = <<>>
    /\ UNCHANGED <<symbols, expiry, contracts, yielded, failed>>
    /\ UNCHANGED <<marketvars, ordervars, portfoliovars>>

\* self.load returns: the server answers with a page of contracts and a cursor
LoadReturns ==
    /\ cpc = "loading"
    /\ \E items \in DistinctListings(Contracts(frame.symbol.ticker), MaxItems), token \in Tokens \cup {None} :
        /\ (Len(responses) + 1 >= MaxPages => token = None)
        /\ responses' = Append(responses, [contracts |-> items, pagination |-> token])
    /\ inflight' = inflight - 1
    /\ cpc' = "loaded"
    /\ UNCHANGED <<symbols, expiry, frame, stack, requests, contracts, yielded, cerror, failed>>
    /\ UNCHANGED <<marketvars, ordervars, portfoliovars>>

\* (mutation) the exception of self.load is caught and what was accumulated so
\* far is returned as the result of the chain fetch
LoadRaisesCaught ==
    /\ cpc = "loading"
    /\ inflight' = inflight - 1
    /\ failed' = failed + 1
    /\ contracts' = SortByExpire(Concat(stack))
    /\ yielded' = IF contracts' # <<>> THEN Append(yielded, contracts') ELSE yielded
    /\ symbols' = Tail(symbols)
    /\ cpc' = IF Tail(symbols) = <<>> THEN "finished" ELSE "loop"
    /\ stack' = <<>>
    /\ UNCHANGED <<expiry, frame, requests, responses, cerror>>
    /\ UNCHANGED <<marketvars, ordervars, portfoliovars>>

\* self.load raises: nothing catches it, every frame is unwound and the exception
\* leaves download() and the generator
LoadRaises ==
    /\ cpc = "loading"
    /\ inflight' = inflight - 1
    /\ failed' = failed + 1
    /\ cpc' = "raised"
    /\ cerror' = "TransportError"
    /\ stack' = <<>>
    /\ UNCHANGED <<symbols, expiry, frame, requests, responses, contracts, yielded>>
    /\ UNCHANGED <<marketvars, ordervars, portfoliovars>>

\* lines 147-151 and, when the chain ends, the return through every frame, the
\* sort of download() and the yield of the generator
Paginate ==
    /\ cpc = "loaded"
    /\ LET page == responses[Len(responses)]
           contents == page.contracts
       IN IF ~Bool(page.pagination)
          THEN LET returned == SortByExpire(Concat(stack) \o contents)
               IN /\ contracts' = returned
                  /\ yielded' = IF returned # <<>> THEN Append(yielded, returned) ELSE yielded
                  /\ symbols' = Tail(symbols)
                  /\ cpc' = IF Tail(symbols) = <<>> THEN "finished" ELSE "loop"
                  /\ stack' = <<>>
                  /\ UNCHANGED <<frame, requests, inflight, cerror>>
          ELSE /\ Call(RecursiveKwargs(frame.symbol, frame.expiry, frame.webapi, page.pagination), Append(stack, contents), requests)
               /\ UNCHANGED <<symbols, contracts, yielded>>
    /\ UNCHANGED <<expiry, responses, failed>>
    /\ UNCHANGED <<marketvars, ordervars, portfoliovars>>

NextChain == ContractExecute \/ ContractDownload \/ LoadReturns \/ LoadRaises \/ Paginate


----------------------------------------------------------------------------
(* Claims about the contract chain                                         *)

\* download() has returned the list `contracts` for the pages in `responses`
Returned == cpc \in {"loop", "finished"} /\ responses # <<>>

Pages == [i \in 1..Len(responses) |-> responses[i].contracts]
Count(list, x) == Cardinality({i \in 1..Len(list) : list[i] = x})
SameItems(a, b) == Len(a) = Len(b) /\ \A i \in 1..Len(a) : Count(a, a[i]) = Count(b, a[i])

\* C1: a server that serves the listing as n pages (the first n-1 with a cursor,
\* the last without) makes the chain fetch load exactly n pages and return exactly
\* the items of those n pages; the fetch fails only when the transport does.
C1_AllPagesFetched ==
    /\ (cpc = "raised" => cerror = "TransportError")
    /\ (Returned =>
            /\ Len(requests) = Len(responses)
            /\ ~Bool(responses[Len(responses)].pagination)
            /\ \A i \in 1..(Len(responses) - 1) : Bool(responses[i].pagination)
            /\ SameItems(contracts, Concat(Pages)))

ExpireSorted(list) == \A i, j \in 1..Len(list) : i < j => list[i].expire <= list[j].expire
OptionRank(option) == IF option = "call" THEN 0 ELSE 1
Precedes(a, b) ==
    \/ a.expire < b.expire
    \/ a.expire = b.expire /\ a.strike < b.strike
    \/ a.expire = b.expire /\ a.strike = b.strike /\ OptionRank(a.option) <= OptionRank(b.option)

C4_FailurePropagates ==
    [][failed' > 0 =>
          /\ cpc' = "raised"
          /\ cerror' = "TransportError"
          /\ inflight' = 0
          /\ requests' = requests
          /\ contracts' = contracts
          /\ yielded' = yielded]_vars

C4_Witness ==
    /\ failed > 0
    /\ cpc = "raised"
    /\ yielded # <<>>
    /\ Len(requests) = 1 /\ responses = <<>>

\* C17: a chain fetch whose loads all return eventually returns (the server ends
\* every chain with a page without cursor), and it returns only after a page
\* without cursor has been received.
C17_ChainFetchReturns ==
    /\ (cpc = "loading") ~> (cpc \in {"loop", "finished"} \/ failed > 0)
    /\ [](Returned => ~Bool(responses[Len(responses)].pagination))

----------------------------------------------------------------------------
(* Trade / quote pages and their reconciliation (market.py 29-33, 73-96,   *)
(* 190-200, 223-233).  Prices are integers, in cents.                      *)

NaN == -1
NaNObject == "NaN"
MaxRows == 2

StockTickers == {"AAPL", "MSFT"}
\* lexicographic rank of a key
KeyRank(key) == IF key = "AAPL" THEN 1 ELSE 2
OptionKeys == {"AAPL250620C00150000"}

\* the latest-trade / latest-quote mappings the server may send for one symbol;
\* every code market_parser reads is present
Mappings == [p : {NaN, 41900, 42010}, dp : {41950, 41951}, ap : {42050, 42060}, as : {100}, bs : {100}]

\* the `contents` of a page: the (key, mapping) items of the json object, in order
Contents(keys) ==
    UNION {{[i \in 1..Len(keylist) |-> [key |-> keylist[i], mapping |-> mappings[i]]] :
               mappings \in [1..Len(keylist) -> Mappings]} : keylist \in DistinctListings(keys, MaxRows)}

market_parser(mapping) ==
    [last |-> mapping.p, bid |-> mapping.dp, ask |-> mapping.ap, supply |-> mapping.as, demand |-> mapping.bs]

stocks_parser(contents) ==
    [i \in 1..Len(contents) |-> Merge([ticker |-> contents[i].key], market_parser(contents[i].mapping))]

\* options_parser evaluates market_parser(content) for every item, and the name
\* `content` is bound nowhere: NameError unless there is no item
options_parser_raises(contents) == contents # <<>>
options_parser(contents) == <<>>

\* pd.DataFrame.from_records(contents), then the columns the data classes add
MarketColumns == <<"ticker", "last", "bid", "ask", "supply", "demand">>
AlpacaMarketData(records) ==
    [columns |-> IF records = <<>> THEN <<>> ELSE MarketColumns, rows |-> records]

AlpacaStockData(records) ==
    LET frame0 == AlpacaMarketData(records)
    IN [columns |-> frame0.columns \o <<"instrument", "option">>,
        rows |-> [i \in 1..Len(frame0.rows) |-> Merge(frame0.rows[i], [instrument |-> "STOCK", option |-> "EMPTY"])]]

AlpacaOptionData(records) ==
    LET frame0 == AlpacaMarketData(records)
    IN [columns |-> frame0.columns \o <<"instrument">>,
        rows |-> [i \in 1..Len(frame0.rows) |-> Merge(frame0.rows[i], [instrument |-> "OPTION"])]]

empty(frame0) == frame0.rows = <<>>
EmptyFrame == [columns |-> <<>>, rows |-> <<>>]

Range(seq) == {seq[i] : i \in 1..Len(seq)}
Keys(frame0) == [i \in 1..Len(frame0.rows) |-> frame0.rows[i].ticker]
HasKey(frame0, key) == \E i \in 1..Len(frame0.rows) : frame0.rows[i].ticker = key
RowOf(frame0, key) == frame0.rows[CHOOSE i \in 1..Len(frame0.rows) : frame0.rows[i].ticker = key]

\* the value pandas gives a column of a row the other side of an outer merge lacks
Missing(column) == IF column \in {"instrument", "option"} THEN NaNObject ELSE NaN
Suffixed(column) ==
    CASE column = "last" -> "last_" [] column = "bid" -> "bid_" [] column = "ask" -> "ask_"
      [] column = "supply" -> "supply_" [] column = "demand" -> "demand_"
      [] column = "instrument" -> "instrument_" [] column = "option" -> "option_"

\* order of the keys of left.merge(right, how="outer", sort=False): the keys of
\* left in left order followed by the keys only right has; pandas releases that
\* follow the documented behaviour of how="outer" order the keys lexicographically
RECURSIVE SortKeys(_)
SortKeys(keys) ==
    IF keys = <<>> THEN <<>>
    ELSE LET least == CHOOSE k \in Range(keys) : \A other \in Range(keys) : KeyRank(k) <= KeyRank(other)
         IN <<least>> \o SortKeys(SelectSeq(keys, LAMBDA k : k # least))
OuterKeys(left, right, lexicographic) ==
    LET union == Keys(left) \o SelectSeq(Keys(right), LAMBDA k : ~HasKey(left, k))
    IN IF lexicographic THEN SortKeys(union) ELSE union

\* left.merge(right, how="outer", on=["ticker"], sort=False, suffixes=("", "_")):
\* a column both sides have keeps its name for left and gets the suffix for right
merge(left, right, lexicographic) ==
    LET keys == OuterKeys(left, right, lexicographic)
        shared == SelectSeq(left.columns, LAMBDA c : c # "ticker" /\ c \in Range(right.columns))
        value(side, key, column) == IF HasKey(side, key) THEN RowOf(side, key)[column] ELSE Missing(column)
        row(key) ==
            [c \in Range(left.columns) \cup {Suffixed(x) : x \in Range(shared)} |->
                IF c = "ticker" THEN key
                ELSE IF c \in Range(left.columns) THEN value(left, key, c)
                ELSE value(right, key, CHOOSE x \in Range(shared) : Suffixed(x) = c)]
    IN [columns |-> left.columns \o [i \in 1..Len(shared) |-> Suffixed(shared[i])],
        rows |-> [i \in 1..Len(keys) |-> row(keys[i])]]

\* dataframe[header]
Select(frame0, header) ==
    [columns |-> header, rows |-> [i \in 1..Len(frame0.rows) |-> [c \in Range(header) |-> frame0.rows[i][c]]]]

\* np.round(x / 2, 2) of a number of half cents: halves go to the even cent
RoundHalf(halves) ==
    LET cents == halves \div 2
    IN IF halves % 2 = 0 \/ cents % 2 = 0 THEN cents ELSE cents + 1
average(cols) == IF cols.ask = NaN \/ cols.bid = NaN THEN NaN ELSE RoundHalf(cols.ask + cols.bid)
missing(cols) == cols.last = NaN

\* AlpacaStockDownloader.download / AlpacaOptionDownloader.download, lines 193-200
download(tradeframe, quoteframe, lexicographic) ==
    IF empty(tradeframe) \/ empty(quoteframe) THEN EmptyFrame
    ELSE LET header == tradeframe.columns \o SelectSeq(quoteframe.columns, LAMBDA c : c \notin Range(tradeframe.columns))
             merged == Select(merge(quoteframe, tradeframe, lexicographic), header)
         IN [columns |-> merged.columns,
             rows |-> [i \in 1..Len(merged.rows) |->
                          [merged.rows[i] EXCEPT !.last = IF missing(merged.rows[i]) THEN average(merged.rows[i]) ELSE @]]]

InitMarket ==
    /\ mpc = "idle"
    /\ trade = EmptyFrame
    /\ quote = EmptyFrame
    /\ dataframe = EmptyFrame
    /\ merror = None

\* trade = AlpacaStockTradePage called with the keyword arguments of download
StockTradePage ==
    /\ mpc = "idle"
    /\ \E contents \in Contents(StockTickers) : trade' = AlpacaStockData(stocks_parser(contents))
    /\ mpc' = "stock_trade"
    /\ UNCHANGED <<quote, dataframe, merror>>
    /\ UNCHANGED <<chainvars, ordervars, portfoliovars>>

\* quote = AlpacaStockQuotePage called with the keyword arguments of download
StockQuotePage ==
    /\ mpc = "stock_trade"
    /\ \E contents \in Contents(StockTickers) : quote' = AlpacaStockData(stocks_parser(contents))
    /\ mpc' = "stock_quote"
    /\ UNCHANGED <<trade, dataframe, merror>>
    /\ UNCHANGED <<chainvars, ordervars, portfoliovars>>

\* the rest of AlpacaStockDownloader.download
StockDownload ==
    /\ mpc = "stock_quote"
    /\ \E lexicographic \in BOOLEAN : dataframe' = download(trade, quote, lexicographic)
    /\ mpc' = "done"
    /\ UNCHANGED <<trade, quote, merror>>
    /\ UNCHANGED <<chainvars, ordervars, portfoliovars>>

\* trade = AlpacaOptionTradePage called with the keyword arguments of download
OptionTradePage ==
    /\ mpc = "idle"
    /\ \E contents \in Contents(OptionKeys) :
          IF options_parser_raises(contents)
          THEN mpc' = "raised" /\ merror' = "NameError" /\ trade' = trade
          ELSE mpc' = "option_trade" /\ merror' = merror /\ trade' = AlpacaOptionData(options_parser(contents))
    /\ UNCHANGED <<quote, dataframe>>
    /\ UNCHANGED <<chainvars, ordervars, portfoliovars>>

\* quote = AlpacaOptionQuotePage called with the keyword arguments of download
OptionQuotePage ==
    /\ mpc = "option_trade"
    /\ \E contents \in Contents(OptionKeys) :
          IF options_parser_raises(contents)
          THEN mpc' = "raised" /\ merror' = "NameError" /\ quote' = quote
          ELSE mpc' = "option_quote" /\ merror' = merror /\ quote' = AlpacaOptionData(options_parser(contents))
    /\ UNCHANGED <<trade, dataframe>>
    /\ UNCHANGED <<chainvars, ordervars, portfoliovars>>

\* the rest of AlpacaOptionDownloader.download
OptionDownload ==
    /\ mpc = "option_quote"
    /\ \E lexicographic \in BOOLEAN : dataframe' = download(trade, quote, lexicographic)
    /\ mpc' = "done"
    /\ UNCHANGED <<trade, quote, merror>>
    /\ UNCHANGED <<chainvars, ordervars, portfoliovars>>

NextMarket == StockTradePage \/ StockQuotePage \/ StockDownload \/ OptionTradePage \/ OptionQuotePage \/ OptionDownload

----------------------------------------------------------------------------
(* Claims about the reconciliation                                         *)

Reconciled == mpc = "done"
InBoth(key) == HasKey(trade, key) /\ HasKey(quote, key)

\* C5: the last of every reconciled row is the last of the trade feed when that
\* is a number, otherwise the rounded mean of the bid and ask of the quote feed,
\* otherwise (no quote for the key) undefined.
C5_LastFromTradeElseQuoteMean ==
    Reconciled =>
        \A i \in 1..Len(dataframe.rows) :
            LET key == dataframe.rows[i].ticker
            IN dataframe.rows[i].last =
                   IF HasKey(trade, key) /\ RowOf(trade, key).last # NaN THEN RowOf(trade, key).last
                   ELSE IF HasKey(quote, key) THEN average(RowOf(quote, key))
                   ELSE NaN

\* C6: reconciliation never raises, and its rows are a full outer join of the two
\* feeds on the key: every key of either feed is the key of exactly one row, also
\* when one of the feeds is empty.
C6_FullOuterJoinNeverRaises ==
    /\ merror = None
    /\ (Reconciled =>
           /\ Range(Keys(dataframe)) = Range(Keys(trade)) \cup Range(Keys(quote))
           /\ Len(dataframe.rows) = Cardinality(Range(Keys(dataframe))))

\* C7: for a key of both feeds, the reconciled row carries the value of the trade
\* feed in every column other than the key and last.
C7_TradeValueWins ==
    Reconciled =>
        \A i \in 1..Len(dataframe.rows) :
            LET key == dataframe.rows[i].ticker
            IN InBoth(key) =>
                  \A column \in {"bid", "ask", "supply", "demand", "instrument"} :
                      dataframe.rows[i][column] = RowOf(trade, key)[column]

\* C8: the rows of a reconciled table follow the keys of the trade feed in trade
\* order, then the keys only the quote feed has in quote order.
C8_TradeKeysThenQuoteKeys ==
    (Reconciled /\ ~empty(trade) /\ ~empty(quote)) =>
        Keys(dataframe) = Keys(trade) \o SelectSeq(Keys(quote), LAMBDA key : ~HasKey(trade, key))

----------------------------------------------------------------------------
(* Orders (orders.py).  The prices of an order are integers, in cents; the  *)
(* spot of a prospect and a price on the wire are in tenths of a cent.  An *)
(* optional number is <<>> for None and <<x>> for the number x.            *)

MaxProspects == 2

Terms == {"MARKET", "LIMIT", "STOP", "STOPLIMIT"}
Tenures == {"DAY", "FILLKILL"}
\* Securities.Options, in column order: (option, position)
Slots == <<[option |-> "put", position |-> "LONG"], [option |-> "put", position |-> "SHORT"],
           [option |-> "call", position |-> "LONG"], [option |-> "call", position |-> "SHORT"]>>
\* strikes by slot of a prospect row, NaN where the strategy has no such leg
StrikeInputs == {<<NaN, NaN, 100, 105>>, <<NaN, NaN, 100, NaN>>, <<95, NaN, NaN, 105>>}
\* the strategy column of a prospect row
Strategies == {"VerticalCall", "CollarLong"}
ProspectInputs == [strategy : Strategies, ticker : {"SPY"}, expire : {1}, strikes : StrikeInputs, spot : {1250, 1255}, size : {1}]

\* np.round(x, 2) of a number of tenths of a cent: halves go to the even cent
Round2(mills) ==
    LET cents == mills \div 10
        rest == mills % 10
    IN IF rest < 5 THEN cents ELSE IF rest > 5 THEN cents + 1 ELSE IF cents % 2 = 0 THEN cents ELSE cents + 1

AlpacaSecurity(settlement, security, strike) ==
    [ticker |-> settlement.ticker, expire |-> settlement.expire, instrument |-> "OPTION",
     option |-> security.option, position |-> security.position, strike |-> strike]

NoOrder == [size |-> 0, term |-> None, tenure |-> None, limit |-> <<>>, stop |-> <<>>, securities |-> <<>>, valuation |-> None]

\* the body of the loop of AlpacaOrderUploader.orders, lines 154-162
AlpacaOrder(prospect, trm, tnr) ==
    LET settlement == [ticker |-> prospect.ticker, expire |-> prospect.expire]
        slots == SelectSeq([i \in 1..Len(Slots) |-> i], LAMBDA i : prospect.strikes[i] # NaN)
        price == 0 - Round2(prospect.spot)
    IN [size |-> prospect.size, limit |-> <<price>>, stop |-> <<>>, term |-> trm, tenure |-> tnr,
        securities |-> [i \in 1..Len(slots) |-> AlpacaSecurity(settlement, Slots[slots[i]], prospect.strikes[slots[i]])],
        valuation |-> "ARBITRAGE"]

\* the assertion of orders(), line 151
orders_asserts(trm) == trm \in {"MARKET", "LIMIT"}

----------------------------------------------------------------------------
(* AlpacaOrderPayload                                                      *)

term_formats_every == [t \in Terms |-> CASE t = "MARKET" -> "market" [] t = "LIMIT" -> "limit" [] t = "STOP" -> "stop" [] t = "STOPLIMIT" -> "stop_limit"]
term_formats == [t \in {"MARKET", "LIMIT"} |-> IF t = "MARKET" THEN "market" ELSE "limit"]
tenure_formats == [t \in {"DAY", "FILLKILL"} |-> IF t = "DAY" THEN "day" ELSE "fok"]
action_formats_swapped == [p \in {"LONG", "SHORT"} |-> IF p = "LONG" THEN "sell" ELSE "buy"]
action_formats == [p \in {"LONG", "SHORT"} |-> IF p = "LONG" THEN "buy" ELSE "sell"]

\* str(OSI([ticker, expire, option, strike])): ticker, date, C or P, strike x 1000
option_formatter(security) ==
    <<security.ticker, security.expire, IF security.option = "call" THEN "C" ELSE "P", security.strike * 1000>>

\* the exceptions building the payload of an order can raise: a term or tenure
\* the formatters do not know (KeyError), a price that is None where the term
\* asks for it (TypeError of the format)
payload_errors(o) ==
    (IF o.term \notin DOMAIN term_formats \/ o.tenure \notin DOMAIN tenure_formats THEN {"KeyError"} ELSE {})
    \cup (IF o.term \in {"LIMIT", "STOPLIMIT"} /\ o.limit = <<>> THEN {"TypeError"} ELSE {})
    \cup (IF o.term \in {"STOP", "STOPLIMIT"} /\ o.stop = <<>> THEN {"TypeError"} ELSE {})

\* f"{price:.02f}": the text of a price in cents, two decimals
Format2(cents) == cents * 10

\* (mutation) the limit price is written whatever the term
AlpacaOrderPayloadLimitAlways(o) ==
    Merge(Merge([order_class |-> "mleg",
                 qty |-> o.size,
                 type |-> term_formats[o.term],
                 time_in_force |-> tenure_formats[o.tenure],
                 legs |-> [i \in 1..Len(o.securities) |->
                             [ratio_qty |-> 1, symbol |-> option_formatter(o.securities[i]), side |-> action_formats[o.securities[i].position]]]],
                IF o.limit # <<>> THEN [limit_price |-> Format2(o.limit[1])] ELSE <<>>),
          IF o.term \in {"STOP", "STOPLIMIT"} THEN [stop_price |-> Format2(o.stop[1])] ELSE <<>>)

AlpacaOrderPayload(o) ==
    Merge(Merge([order_class |-> "mleg",
                 qty |-> o.size,
                 type |-> term_formats[o.term],
                 time_in_force |-> tenure_formats[o.tenure],
                 legs |-> [i \in 1..Len(o.securities) |->
                             [ratio_qty |-> 1, symbol |-> option_formatter(o.securities[i]), side |-> action_formats[o.securities[i].position]]]],
                IF o.term \in {"LIMIT", "STOPLIMIT"} THEN [limit_price |-> Format2(o.limit[1])] ELSE <<>>),
          IF o.term \in {"STOP", "STOPLIMIT"} THEN [stop_price |-> Format2(o.stop[1])] ELSE <<>>)

----------------------------------------------------------------------------
(* AlpacaOrderData                                                         *)

term_parses_default == [t \in {"market", "limit", "stop", None} |-> IF t = "limit" THEN "LIMIT" ELSE "MARKET"]
term_parses == [t \in {"market", "limit"} |-> IF t = "market" THEN "MARKET" ELSE "LIMIT"]
tenure_parses == [t \in {"day", "fok"} |-> IF t = "day" THEN "DAY" ELSE "FILLKILL"]
position_parses == [t \in {"buy", "sell"} |-> IF t = "buy" THEN "LONG" ELSE "SHORT"]
limit_parser(price) == IF price = <<>> THEN <<>> ELSE <<Round2(price[1])>>
stop_parser(price) == IF price = <<>> THEN <<>> ELSE <<Round2(price[1])>>

\* AlpacaOrderData.Securities.execute
SecurityData(leg) ==
    AlpacaSecurity([ticker |-> leg.symbol[1], expire |-> leg.symbol[2]],
                   [option |-> IF leg.symbol[3] = "C" THEN "call" ELSE "put", position |-> position_parses[leg.side]],
                   leg.symbol[4] \div 1000)

\* the mapping super().execute() returns: one entry per data class, by its key
OrderContents(ack) ==
    [limit |-> limit_parser(ack.limit_price), stop |-> stop_parser(ack.stop_price),
     tenure |-> tenure_parses[ack.time_in_force], term |-> term_parses[ack.type], size |-> ack.qty,
     securities |-> [i \in 1..Len(ack.legs) |-> SecurityData(ack.legs[i])]]

\* keywords line 101 writes out in the call AlpacaOrder(securities=..., valuation=None, **contents)
ExplicitKeywords == {"securities", "valuation"}

\* the exceptions the parsers of super().execute() on line 99 can raise: a word
\* the dictionaries do not know, None included (KeyError), a text np.int32 or int
\* cannot read (ValueError), a symbol OSI cannot read (OSIError)
parse_errors(ack) ==
    (IF ack.type \notin DOMAIN term_parses \/ ack.time_in_force \notin DOMAIN tenure_parses
        \/ \E i \in 1..Len(ack.legs) : ack.legs[i].side \notin DOMAIN position_parses
     THEN {"KeyError"} ELSE {})
    \cup (IF ack.qty = NaN \/ \E i \in 1..Len(ack.legs) : ack.legs[i].ratio_qty = NaN THEN {"ValueError"} ELSE {})
    \cup (IF \E i \in 1..Len(ack.legs) : ack.legs[i].symbol = <<>> THEN {"OSIError"} ELSE {})

\* the exceptions decoding an acknowledgement can raise: those of the parsers,
\* then a keyword given twice in the call of AlpacaOrder on line 101 (TypeError)
data_errors(ack) ==
    IF parse_errors(ack) # {} THEN parse_errors(ack)
    ELSE IF ExplicitKeywords \cap DOMAIN OrderContents(ack) # {} THEN {"TypeError"} ELSE {}

AlpacaOrderData(ack) ==
    Merge(OrderContents(ack), [valuation |-> None])

\* acknowledgements the server may answer a payload with: the order as the
\* broker took it, with the type and limit price of the payload or others
Acknowledged(payload) ==
    {Merge(payload, [type |-> type, limit_price |-> limit, stop_price |-> <<>>]) :
        type \in {payload.type, "stop"},
        limit \in {<<>>} \cup (IF "limit_price" \in DOMAIN payload THEN {<<payload.limit_price>>, <<payload.limit_price + 5>>} ELSE {})}

\* the acknowledgements that differ from ack by one field that is absent (None),
\* is no word of the wire vocabulary, no number (NaN) or no OSI symbol (<<>>)
Damaged(ack) ==
    {[ack EXCEPT !.type = None], [ack EXCEPT !.time_in_force = None], [ack EXCEPT !.time_in_force = "gtc"], [ack EXCEPT !.qty = NaN]}
    \cup UNION {{[ack EXCEPT !.legs[i].symbol = <<>>], [ack EXCEPT !.legs[i].side = None],
                 [ack EXCEPT !.legs[i].side = "sell_short"], [ack EXCEPT !.legs[i].ratio_qty = NaN]} : i \in 1..Len(ack.legs)}

Acknowledgements(payload) ==
    Acknowledged(payload) \cup Damaged(Merge(payload, [limit_price |-> <<>>, stop_price |-> <<>>]))

\* orders a caller may hand to AlpacaOrderPage.execute directly
OrderInputs ==
    [size : {1}, term : Terms, tenure : Tenures, limit : {<<>>, <<0 - 125>>}, stop : {<<>>, <<0 - 130>>},
     securities : {<<AlpacaSecurity([ticker |-> "SPY", expire |-> 1], Slots[3], 100)>>}, valuation : {None}]

InitOrder ==
    /\ opc = "idle"
    /\ prospects = <<>>
    /\ term = None
    /\ tenure = None
    /\ order = NoOrder
    /\ built = <<>>
    /\ sent = <<>>
    /\ json = <<>>
    /\ decoded = <<>>
    /\ oerror = None

\* AlpacaOrderPage.execute up to self.load, lines 122-125: the payload is built
\* and handed to the transport
Submit(o) ==
    IF payload_errors(o) # {}
    THEN /\ opc' = "raised"
         /\ oerror' \in payload_errors(o)
         /\ sent' = sent
    ELSE /\ opc' = "loading"
         /\ oerror' = oerror
         /\ sent' = Append(sent, AlpacaOrderPayload(o))

\* AlpacaOrderUploader.execute up to the first order
UploaderExecute ==
    /\ opc = "idle"
    /\ \E rows \in Listings(ProspectInputs, MaxProspects), trm \in Terms, tnr \in Tenures :
        /\ prospects' = rows
        /\ term' = trm
        /\ tenure' = tnr
        /\ opc' = IF rows = <<>> THEN "finished" ELSE "orders"
    /\ UNCHANGED <<order, built, sent, json, decoded, oerror>>
    /\ UNCHANGED <<chainvars, marketvars, portfoliovars>>

\* orders() yields the order of the next prospect row and upload() submits it
Upload ==
    /\ opc = "orders"
    /\ IF ~orders_asserts(term)
       THEN /\ opc' = "raised"
            /\ oerror' = "AssertionError"
            /\ UNCHANGED <<order, built, sent>>
       ELSE /\ order' = AlpacaOrder(Head(prospects), term, tenure)
            /\ built' = Append(built, order')
            /\ Submit(order')
    /\ UNCHANGED <<prospects, term, tenure, json, decoded>>
    /\ UNCHANGED <<chainvars, marketvars, portfoliovars>>

\* AlpacaOrderPage.execute called with an order of the caller
PageExecute ==
    /\ opc = "idle"
    /\ \E o \in OrderInputs :
        /\ order' = o
        /\ Submit(o)
    /\ UNCHANGED <<prospects, term, tenure, built, json, decoded>>
    /\ UNCHANGED <<chainvars, marketvars, portfoliovars>>

\* self.load returns an acknowledgement, lines 126-128, then upload() and the
\* rest of the loop body of execute()
OrderLoadReturns ==
    /\ opc = "loading"
    /\ \E ack \in Acknowledgements(sent[Len(sent)]) :
          /\ json' = <<ack>>
          /\ IF data_errors(ack) # {}
             THEN /\ opc' = "raised"
                  /\ oerror' \in data_errors(ack)
                  /\ UNCHANGED <<prospects, decoded>>
             ELSE /\ decoded' = Append(decoded, AlpacaOrderData(ack))
                  /\ prospects' = IF prospects = <<>> THEN <<>> ELSE Tail(prospects)
                  /\ opc' = IF prospects' = <<>> THEN "finished" ELSE "orders"
                  /\ oerror' = oerror
    /\ UNCHANGED <<term, tenure, order, built, sent>>
    /\ UNCHANGED <<chainvars, marketvars, portfoliovars>>

\* self.load raises
OrderLoadRaises ==
    /\ opc = "loading"
    /\ opc' = "raised"
    /\ oerror' = "TransportError"
    /\ UNCHANGED <<prospects, term, tenure, order, built, sent, json, decoded>>
    /\ UNCHANGED <<chainvars, marketvars, portfoliovars>>

NextOrder == UploaderExecute \/ Upload \/ PageExecute \/ OrderLoadReturns \/ OrderLoadRaises

----------------------------------------------------------------------------
(* Claims about the orders                                                 *)

Unsupported == {"STOP", "STOPLIMIT"}

\* C9: an order whose term is neither MARKET nor LIMIT is rejected with an
\* exception before anything is handed to the transport: the uploader called with
\* such a term builds and submits nothing, the page called with such an order
\* raises, and no payload the transport received is of another type than market
\* or limit.
C9_UnsupportedTermRejected ==
    /\ \A i \in 1..Len(sent) : sent[i].type \in {"market", "limit"}
    /\ (term \in Unsupported =>
           /\ built = <<>> /\ sent = <<>>
           /\ opc \in {"orders", "finished", "raised"}
           /\ (opc = "raised" => oerror = "AssertionError"))
    /\ (order.term \in Unsupported =>
           /\ sent = <<>>
           /\ opc = "raised"
           /\ oerror \in {"KeyError", "TypeError"})

C9_Witness ==
    /\ order.term = "STOP"
    /\ order.stop # <<>>
    /\ opc = "raised"
    /\ oerror = "KeyError"
    /\ sent = <<>>

\* C10: every order the generator orders() constructs and every order decoded
\* from an acknowledgement has a limit price exactly when its term is LIMIT or
\* STOPLIMIT and a stop price exactly when its term is STOP or STOPLIMIT.
C10_PricesMatchTerm ==
    \A o \in Range(built) \cup Range(decoded) :
        /\ (o.limit # <<>>) <=> (o.term \in {"LIMIT", "STOPLIMIT"})
        /\ (o.stop # <<>>) <=> (o.term \in {"STOP", "STOPLIMIT"})

\* the payload `payload` carries one leg entry per security of the order `o`, in
\* the order of the securities, each with the OSI symbol of the security and the
\* side of its position
LegsOf(o, payload) ==
    /\ payload.order_class = "mleg"
    /\ Len(payload.legs) = Len(o.securities)
    /\ \A i \in 1..Len(o.securities) :
          LET security == o.securities[i]
              leg == payload.legs[i]
          IN /\ leg.symbol[1] = security.ticker
             /\ leg.symbol[2] = security.expire
             /\ (leg.symbol[3] = "C") <=> (security.option = "call")
             /\ (leg.symbol[3] = "P") <=> (security.option = "put")
             /\ leg.symbol[4] = security.strike * 1000
             /\ (leg.side = "buy") <=> (security.position = "LONG")
             /\ (leg.side = "sell") <=> (security.position = "SHORT")

\* the ratio quantity a security carries: <<>> when it has no such field
RatioQuantity(security) == IF "quantity" \in DOMAIN security THEN <<security.quantity>> ELSE <<>>

\* the last payload handed to the transport was built from `order`, and the i-th
\* payload of an upload from the i-th order of the generator
Payloads == (IF sent # <<>> THEN {<<order, sent[Len(sent)]>>} ELSE {}) \cup {<<built[i], sent[i]>> : i \in 1..Len(sent) \cap 1..Len(built)}

Echo(payload) ==
    Merge(payload, [limit_price |-> IF "limit_price" \in DOMAIN payload THEN <<payload.limit_price>> ELSE <<>>,
                    stop_price |-> IF "stop_price" \in DOMAIN payload THEN <<payload.stop_price>> ELSE <<>>])

\* C12: for every MARKET or LIMIT order, decoding the payload built from it as an
\* acknowledgement raises nothing and gives an order with the same securities in
\* the same order, the same term, the same tenure and, for LIMIT, the same limit
\* price rounded to 2 decimals.
C12_RoundTrip ==
    \A pair \in Payloads :
        pair[1].term \in {"MARKET", "LIMIT"} =>
            LET ack == Echo(pair[2])
            IN /\ data_errors(ack) = {}
               /\ AlpacaOrderData(ack).securities = pair[1].securities
               /\ AlpacaOrderData(ack).term = pair[1].term
               /\ AlpacaOrderData(ack).tenure = pair[1].tenure
               /\ (pair[1].term = "LIMIT" => AlpacaOrderData(ack).limit = pair[1].limit)

\* a required field of the acknowledgement is absent, carries a word outside the
\* wire vocabulary or a text that is no number, or a leg symbol is no OSI symbol
Malformed(ack) ==
    \/ ack.type \notin {"market", "limit"}
    \/ ack.time_in_force \notin {"day", "fok"}
    \/ ack.qty = NaN
    \/ \E i \in 1..Len(ack.legs) :
          \/ ack.legs[i].symbol = <<>>
          \/ ack.legs[i].side \notin {"buy", "sell"}
          \/ ack.legs[i].ratio_qty = NaN

\* C13: decoding a malformed acknowledgement raises the exception of the parser
\* that met the field (KeyError, ValueError or the error of OSI), and no order is
\* decoded from it.
C13_MalformedAcknowledgementRaises ==
    [][(opc = "loading" /\ oerror' # "TransportError" /\ Malformed(json'[1])) =>
          /\ opc' = "raised"
          /\ oerror' \in {"KeyError", "ValueError", "OSIError"}
          /\ decoded' = decoded]_vars

C13_Witness ==
    /\ json # <<>>
    /\ json[1].type = "limit"
    /\ json[1].time_in_force = "day"
    /\ json[1].legs[1].side = None
    /\ opc = "raised"
    /\ oerror = "KeyError"
    /\ decoded = <<>>

\* the slots (indices of Slots) a strategy requires: a vertical call is a long
\* call and a short call, a long collar a long put and a short call
Required(strategy) == IF strategy = "VerticalCall" THEN {3, 4} ELSE {1, 4}
HasLeg(o, slot) ==
    \E j \in 1..Len(o.securities) :
        o.securities[j].option = Slots[slot].option /\ o.securities[j].position = Slots[slot].position

\* C14: a prospect row whose strikes lack the strike of a slot its strategy
\* requires yields no order (the generator raises instead): every order the
\* generator has constructed has a leg for every slot its strategy requires.
C14_MissingStrikeRejected ==
    (built # <<>> /\ prospects # <<>> /\ opc \in {"loading", "raised"}) =>
        \A slot \in Required(Head(prospects).strategy) : HasLeg(built[Len(built)], slot)

\* C16: a payload has the key limit_price exactly when the term of its order is
\* LIMIT or STOPLIMIT and the key stop_price exactly when it is STOP or
\* STOPLIMIT, and always the keys qty, type and time_in_force; the order a
\* payload was built from is the same afterwards, also when the acknowledgement
\* has been decoded.
PayloadKeys ==
    \A pair \in Payloads :
        /\ ("limit_price" \in DOMAIN pair[2]) <=> (pair[1].term \in {"LIMIT", "STOPLIMIT"})
        /\ ("stop_price" \in DOMAIN pair[2]) <=> (pair[1].term \in {"STOP", "STOPLIMIT"})
        /\ {"qty", "type", "time_in_force"} \subseteq DOMAIN pair[2]
C16_PayloadKeysOrderUnchanged ==
    [][/\ PayloadKeys'
       /\ (opc = "loading" => (order' = order /\ built' = built))]_vars

C16_Witness ==
    /\ Len(sent) = 1
    /\ order.term = "LIMIT"
    /\ "limit_price" \in DOMAIN sent[1]
    /\ "stop_price" \notin DOMAIN sent[1]
    /\ built = <<order>>
    /\ json # <<>>

\* the uploader has submitted the orders of the first rows, one payload each, in
\* row order, the next one only after the one before was acknowledged; it has
\* stopped early only where the transport, the assertion of the term or a
\* malformed acknowledgement raised, and has finished only with every row done
SubmittedInRowOrder ==
    /\ (built # <<>> =>
           /\ Len(sent) = Len(built)
           /\ Len(built) <= Len(decoded) + 1
           /\ \A i \in 1..Len(sent) : LegsOf(built[i], sent[i]) /\ sent[i].qty = built[i].size)
    /\ ((built # <<>> /\ opc = "raised" /\ oerror # "TransportError") => (json # <<>> /\ Malformed(json[1])))
    /\ ((built # <<>> /\ opc = "finished") => (prospects = <<>> /\ Len(decoded) = Len(built)))

----------------------------------------------------------------------------
(* Portfolio (portfolio.py 24-64).  A symbol is the sequence of its         *)
(* characters.  OSI is outside the repository: it is taken to read a run of *)
(* capital letters, six digits, C or P and eight digits, and to raise on    *)
(* any other string.                                                        *)

MaxToken == 2
MaxPositions == 1

Letters == {"a", "p", "l", "A", "P", "L", "C", "X"}
isdigit(c) == c \in {"0", "1", "2", "5", "6"}
isalpha(c) == c \in Letters
isupper(c) == c \in {"A", "P", "L", "C", "X"}
upper(string) == [i \in 1..Len(string) |-> CASE string[i] = "a" -> "A" [] string[i] = "p" -> "P" [] string[i] = "l" -> "L" [] OTHER -> string[i]]

\* symbols the server may send: every string of at most MaxToken characters
\* over a, A, 1, and some longer ones
AAPL == <<"A", "A", "P", "L">>
Date == <<"2", "5", "0", "6", "2", "0">>
Strike == <<"0", "0", "1", "5", "0", "0", "0", "0">>
SymbolTokens ==
    UNION {[1..n -> {"a", "A", "1"}] : n \in 0..MaxToken}
    \cup {AAPL, <<"a", "a", "p", "l">>, <<"A", ".", "A">>,
          AAPL \o Date \o <<"C">> \o Strike, AAPL \o Date \o <<"P">> \o Strike,
          AAPL \o Date \o <<"X">> \o Strike, AAPL \o Date \o <<"C">> \o Tail(Strike)}
PositionInputs == [symbol : SymbolTokens, side : {"long", "short"}, avg_entry_price : {1250, 1255}, qty : {1}]

\* the decimal number a string of digits writes
RECURSIVE Number(_)
DigitValue(c) == CASE c = "0" -> 0 [] c = "1" -> 1 [] c = "2" -> 2 [] c = "5" -> 5 [] c = "6" -> 6
Number(digits) == IF digits = <<>> THEN 0 ELSE 10 * Number(SubSeq(digits, 1, Len(digits) - 1)) + DigitValue(digits[Len(digits)])

\* OSI(string): the ticker is the run of letters the string begins with
RECURSIVE LeadingAlpha(_)
LeadingAlpha(string) ==
    IF string = <<>> \/ ~isalpha(Head(string)) THEN <<>> ELSE <<Head(string)>> \o LeadingAlpha(Tail(string))
OSIReads(string) ==
    LET ticker == LeadingAlpha(string)
        rest == SubSeq(string, Len(ticker) + 1, Len(string))
    IN /\ ticker # <<>>
       /\ \A i \in 1..Len(ticker) : isupper(ticker[i])
       /\ Len(rest) = Len(Date) + 1 + Len(Strike)
       /\ \A i \in 1..Len(Date) : isdigit(rest[i])
       /\ rest[Len(Date) + 1] \in {"C", "P"}
       /\ \A i \in (Len(Date) + 2)..Len(rest) : isdigit(rest[i])
OSI(string) ==
    LET ticker == LeadingAlpha(string)
        rest == SubSeq(string, Len(ticker) + 1, Len(string))
    IN [ticker |-> ticker,
        expire |-> SubSeq(rest, 1, Len(Date)),
        option |-> IF rest[Len(Date) + 1] = "C" THEN "CALL" ELSE "PUT",
        strike |-> Number(SubSeq(rest, Len(Date) + 2, Len(rest))) \div 1000]

\* lines 24-28; None is <<>> for expire and strike
instrument_parser_all(string) == IF \A i \in 1..Len(string) : isdigit(string[i]) THEN "OPTION" ELSE "STOCK"
instrument_parser(string) == IF \E i \in 1..Len(string) : isdigit(string[i]) THEN "OPTION" ELSE "STOCK"
ticker_parser(string) == IF instrument_parser(string) = "OPTION" THEN OSI(string).ticker ELSE upper(string)
expire_parser(string) == IF instrument_parser(string) = "OPTION" THEN OSI(string).expire ELSE <<>>
option_parser(string) == IF instrument_parser(string) = "OPTION" THEN OSI(string).option ELSE "EMPTY"
strike_parser(string) == IF instrument_parser(string) = "OPTION" THEN <<OSI(string).strike>> ELSE <<>>
portfolio_position_parses == [t \in {"long", "short"} |-> IF t = "long" THEN "LONG" ELSE "SHORT"]
price_parser(mills) == Round2(mills)

\* the exceptions the parsers of a position object can raise
portfolio_errors(position) ==
    (IF instrument_parser(position.symbol) = "OPTION" /\ ~OSIReads(position.symbol) THEN {"OSIError"} ELSE {})
    \cup (IF position.side \notin DOMAIN portfolio_position_parses THEN {"KeyError"} ELSE {})

\* AlpacaPortfolioData.execute: the record of one position object
AlpacaPortfolioData(position) ==
    [ticker |-> ticker_parser(position.symbol), expire |-> expire_parser(position.symbol),
     instrument |-> instrument_parser(position.symbol), option |-> option_parser(position.symbol),
     position |-> portfolio_position_parses[position.side], strike |-> strike_parser(position.symbol),
     entry |-> price_parser(position.avg_entry_price), quantity |-> position.qty]

InitPortfolio ==
    /\ ppc = "idle"
    /\ positions = <<>>
    /\ portfolio = <<>>
    /\ perror = None

\* AlpacaPortfolioPage.execute, lines 59-60: self.load returns the positions
PortfolioLoadReturns ==
    /\ ppc = "idle"
    /\ \E answer \in UNION {[1..n -> PositionInputs] : n \in 0..MaxPositions} : positions' = answer
    /\ ppc' = "loaded"
    /\ UNCHANGED <<portfolio, perror>>
    /\ UNCHANGED <<chainvars, marketvars, ordervars>>

\* self.load raises
PortfolioLoadRaises ==
    /\ ppc = "idle"
    /\ ppc' = "raised"
    /\ perror' = "TransportError"
    /\ UNCHANGED <<positions, portfolio>>
    /\ UNCHANGED <<chainvars, marketvars, ordervars>>

\* lines 61-64: every position object is decoded, in order, and the records are
\* concatenated; pd.concat of no record raises ValueError
PortfolioDecode ==
    /\ ppc = "loaded"
    /\ LET bad == {i \in 1..Len(positions) : portfolio_errors(positions[i]) # {}}
       IN IF bad # {}
          THEN /\ ppc' = "raised"
               /\ perror' \in portfolio_errors(positions[CHOOSE i \in bad : \A j \in bad : i <= j])
               /\ portfolio' = portfolio
          ELSE IF positions = <<>>
          THEN /\ ppc' = "raised"
               /\ perror' = "ValueError"
               /\ portfolio' = portfolio
          ELSE /\ ppc' = "done"
               /\ perror' = perror
               /\ portfolio' = [i \in 1..Len(positions) |-> AlpacaPortfolioData(positions[i])]
    /\ UNCHANGED positions
    /\ UNCHANGED <<chainvars, marketvars, ordervars>>

NextPortfolio == PortfolioLoadReturns \/ PortfolioLoadRaises \/ PortfolioDecode

\* the string without the run of letters it begins with
StripAlpha(string) == SubSeq(string, Len(LeadingAlpha(string)) + 1, Len(string))
HasDigit(string) == \E i \in 1..Len(string) : isdigit(string[i])

\* C15: a position symbol is decoded as an option exactly when it has a digit
\* after the run of letters it begins with, and otherwise as a stock with the
\* upper-cased symbol as ticker; a decoded row has an option type other than
\* EMPTY exactly when it has a strike and exactly when it has an expiration; a
\* symbol OSI cannot read is one that was classified as an option.
C15_OptionIffDigitAfterTicker ==
    /\ (ppc = "done" =>
           /\ Len(portfolio) = Len(positions)
           /\ \A i \in 1..Len(portfolio) :
                 /\ (portfolio[i].instrument = "OPTION") <=> HasDigit(StripAlpha(positions[i].symbol))
                 /\ (portfolio[i].instrument # "OPTION") =>
                        (portfolio[i].instrument = "STOCK" /\ portfolio[i].ticker = upper(positions[i].symbol))
                 /\ (portfolio[i].option # "EMPTY") <=> (portfolio[i].strike # <<>>)
                 /\ (portfolio[i].strike # <<>>) <=> (portfolio[i].expire # <<>>)
                 /\ (portfolio[i].instrument = "OPTION") <=> (portfolio[i].option # "EMPTY"))
    /\ (perror = "OSIError" => \E i \in 1..Len(positions) : HasDigit(StripAlpha(positions[i].symbol)))

C15_Witness ==
    /\ ppc = "done"
    /\ portfolio[1].instrument = "OPTION"
    /\ portfolio[1].option = "PUT"
    /\ portfolio[1].ticker = AAPL
    /\ portfolio[1].strike = <<150>>

----------------------------------------------------------------------------
(* Specifications                                                          *)

Init == InitChain /\ InitMarket /\ InitOrder /\ InitPortfolio

SpecChain == Init /\ [][NextChain]_vars
\* the interpreter runs the downloader on and the transport answers every load
SpecChainFair == SpecChain /\ WF_vars(ContractDownload) /\ WF_vars(LoadReturns) /\ WF_vars(Paginate)
SpecMarket == Init /\ [][NextMarket]_vars
SpecOrder == Init /\ [][NextOrder]_vars
SpecPortfolio == Init /\ [][NextPortfolio]_vars

====
